---- MODULE Spec2Model ----
(***************************************************************************)
(* The yacht-club party timetable of yachtclub.py: a constraint model over *)
(* host flags hosts[b] and visit flags boats[t][i][j] ("boat i visits boat *)
(* j in half-hour t"), nine constraint families, the objective "maximize   *)
(* the number of guests", and one solve. The solver is a complete          *)
(* optimizer: it takes the sat branch with any optimal satisfying          *)
(* assignment and the else branch exactly when the model has no solution.  *)
(***************************************************************************)
EXTENDS Integers, FiniteSets, Sequences, TLC

\* Bounds of the instances explored: the largest fleet and the most half-hours.
MaxBoats == 4
MaxSlots == 2

\* The crew sizes drawn (np.random.randint(4, max_crew_size) gives 4 .. 19) and
\* the room beyond the own crew (np.random.randint(0, 100) gives 0 .. 99).
CrewSizes == {5, 11}
Spare == {0, 10, 15}

VARIABLES n_boats, available_halfhours, crew_size, capacity, hosts, boats, status

vars == <<n_boats, available_halfhours, crew_size, capacity, hosts, boats, status>>

Idx(n) == 0 .. (n - 1)

\* cp.sum over a one-dimensional array f[0 .. n-1].
RECURSIVE Sum(_, _)
Sum(f, n) == IF n = 0 THEN 0 ELSE f[n - 1] + Sum(f, n - 1)

\* cp.sum(boats[:, :, b]): every visit flag with destination b.
SumInto(v, n, T, b) == Sum([t \in Idx(T) |-> Sum([i \in Idx(n) |-> v[t][i][b]], n)], T)

\* cp.sum(boats[:, b, :]): every visit flag with origin b.
SumFrom(v, n, T, b) == Sum([t \in Idx(T) |-> Sum(v[t][b], n)], T)

\* cp.sum(~hosts): the objective.
Guests(n, h) == Cardinality({b \in Idx(n) : ~h[b]})

(***************************************************************************)
(* The constraints, one definition per "model +=" statement, with the      *)
(* indices of the enclosing for loops as parameters.                       *)
(***************************************************************************)

\* The capacity constraint with the host's own crew left out of the sum.
CapacityLimitGuestsOnly(crew, cap, v, n, t, b) ==
    Sum([i \in Idx(n) |-> v[t][i][b] * crew[i]], n) <= cap[b]

\* The capacity constraint counting visiting boats instead of their crews.
CapacityLimitHeadless(crew, cap, v, n, t, b) ==
    Sum([i \in Idx(n) |-> v[t][i][b]], n) + crew[b] <= cap[b]

\* The capacity constraint with the comparison turned around.
CapacityLimitReversed(crew, cap, v, n, t, b) ==
    Sum([i \in Idx(n) |-> v[t][i][b] * crew[i]], n) + crew[b] >= cap[b]

\* C1: the people on boat b at time t do not exceed its capacity.
CapacityLimit(crew, cap, v, n, t, b) ==
    Sum([i \in Idx(n) |-> v[t][i][b] * crew[i]], n) + crew[b] <= cap[b]

\* C1: a boat cannot be its own guest.
NoSelfVisit(v, t, b) == v[t][b][b] = 0

\* C2: a host has guests at some point.
HostHasGuests(h, v, n, T, b) == h[b] => SumInto(v, n, T, b) > 0

\* The non-host constraint with >= for ==: it no longer forbids anything.
NonHostAnyGuests(h, v, n, T, b) == (~h[b]) => SumInto(v, n, T, b) >= 0

\* C2: a non-host has no guests.
NonHostNoGuests(h, v, n, T, b) == (~h[b]) => SumInto(v, n, T, b) = 0

\* C3: hosts cannot visit other boats.
HostsStay(h, v, n, T, b) == h[b] => SumFrom(v, n, T, b) = 0

\* C4: guests must visit at least one host.
GuestsVisit(h, v, n, T, b) == (~h[b]) => SumFrom(v, n, T, b) > 0

\* The pairing constraint as a cap: at most once instead of exactly once.
AtMostOnce(h, v, T, i, j) ==
    ((~h[i]) /\ h[j]) => Sum([t \in Idx(T) |-> v[t][i][j]], T) <= 1

\* C5: guest i visits host j exactly once across all time slots.
ExactlyOnce(h, v, T, i, j) ==
    ((~h[i]) /\ h[j]) => Sum([t \in Idx(T) |-> v[t][i][j]], T) = 1

\* The per-slot constraint with the bound off by one.
TwoPerSlot(h, v, n, ah, i) == (~h[i]) => Sum(v[ah][i], n) <= 2

\* C6: a guest visits at most one boat per time slot.
OnePerSlot(h, v, n, ah, i) == (~h[i]) => Sum(v[ah][i], n) <= 1

\* C7: guests i and k meet (same host, same time slot) at most once.
Meetings(v, n, T, i, k) ==
    Sum([t \in Idx(T) |-> Sum([x \in Idx(n) |-> v[t][i][x] * v[t][k][x]], n)], T)

\* The meeting constraint with the bound off by one, upwards and downwards.
MeetTwice(h, v, n, T, i, k) == ((~h[i]) /\ (~h[k])) => Meetings(v, n, T, i, k) <= 2

MeetNever(h, v, n, T, i, k) == ((~h[i]) /\ (~h[k])) => Meetings(v, n, T, i, k) < 1

MeetOnce(h, v, n, T, i, k) == ((~h[i]) /\ (~h[k])) => Meetings(v, n, T, i, k) <= 1

\* C8: at least one host.
SomeHost(n, h) == Cardinality({b \in Idx(n) : h[b]}) > 0

\* C9: not all boats are hosts.
NotAllHosts(n, h) == Cardinality({b \in Idx(n) : h[b]}) < n

\* The structural constraints without the two that only hosts can violate by
\* receiving nobody: "a host has guests" and "not all boats are hosts".
StructuralGuestSideOnly(h, v, n, T) ==
    /\ \A t \in Idx(T), b \in Idx(n) : NoSelfVisit(v, t, b)
    /\ \A b \in Idx(n) : NonHostNoGuests(h, v, n, T, b)
    /\ \A b \in Idx(n) : HostsStay(h, v, n, T, b)
    /\ \A b \in Idx(n) : GuestsVisit(h, v, n, T, b)
    /\ \A i \in Idx(n), j \in Idx(n) : i # j => ExactlyOnce(h, v, T, i, j)
    /\ \A ah \in Idx(T), i \in Idx(n) : OnePerSlot(h, v, n, ah, i)
    /\ \A i \in Idx(n), k \in Idx(n) : i < k => MeetOnce(h, v, n, T, i, k)
    /\ SomeHost(n, h)

\* The constraints that do not mention crew sizes or capacities.
Structural(h, v, n, T) ==
    /\ \A t \in Idx(T), b \in Idx(n) : NoSelfVisit(v, t, b)
    /\ \A b \in Idx(n) : HostHasGuests(h, v, n, T, b) /\ NonHostNoGuests(h, v, n, T, b)
    /\ \A b \in Idx(n) : HostsStay(h, v, n, T, b)
    /\ \A b \in Idx(n) : GuestsVisit(h, v, n, T, b)
    /\ \A i \in Idx(n), j \in Idx(n) : i # j => ExactlyOnce(h, v, T, i, j)
    /\ \A ah \in Idx(T), i \in Idx(n) : OnePerSlot(h, v, n, ah, i)
    /\ \A i \in Idx(n), k \in Idx(n) : i < k => MeetOnce(h, v, n, T, i, k)
    /\ SomeHost(n, h)
    /\ NotAllHosts(n, h)

WithinCapacity(crew, cap, v, n, T) ==
    \A t \in Idx(T), b \in Idx(n) : CapacityLimit(crew, cap, v, n, t, b)

\* The whole model: every constraint added before the solve.
Satisfies(crew, cap, h, v, n, T) ==
    WithinCapacity(crew, cap, v, n, T) /\ Structural(h, v, n, T)

(***************************************************************************)
(* The search space of the solve. The decision variables are               *)
(* hosts = cp.boolvar(n) and boats = cp.boolvar((T, n, n)); the solver     *)
(* ranges over all of them. The enumeration below builds that space row by *)
(* row instead of listing all 2^(T*n*n) arrays: a constraint that reads    *)
(* only the flags of one origin boat, or that only bounds a sum from       *)
(* above, is evaluated on the array that is zero outside that boat's rows, *)
(* which discards exactly the rows no satisfying array can contain. Every  *)
(* assembled array is then tested against all the constraints.             *)
(***************************************************************************)
ZeroRow(n) == [j \in Idx(n) |-> 0]

\* The array whose rows of origin i are s[t] and whose other flags are 0.
OnlyBoat(n, T, i, s) ==
    [t \in Idx(T) |-> [a \in Idx(n) |-> IF a = i THEN s[t] ELSE ZeroRow(n)]]

\* The values boats[t, i, :] can take in a solution with host flags h.
Rows(h, n, i) ==
    {r \in [Idx(n) -> {0, 1}] :
        LET v == OnlyBoat(n, 1, i, [t \in Idx(1) |-> r])
        IN  /\ NoSelfVisit(v, 0, i)
            /\ \A b \in Idx(n) : NonHostNoGuests(h, v, n, 1, b)
            /\ HostsStay(h, v, n, 1, i)
            /\ OnePerSlot(h, v, n, 0, i)}

\* The values boats[:, i, :] can take in a solution with host flags h.
BoatSchedules(h, n, T, i) ==
    {s \in [Idx(T) -> Rows(h, n, i)] :
        LET v == OnlyBoat(n, T, i, s)
        IN  /\ GuestsVisit(h, v, n, T, i)
            /\ \A j \in Idx(n) : i # j => ExactlyOnce(h, v, T, i, j)}

\* One schedule per boat 0 .. k-1, as a sequence.
RECURSIVE Schedules(_, _, _, _)
Schedules(h, n, T, k) ==
    IF k = 0 THEN {<<>>}
    ELSE {Append(p, s) : p \in Schedules(h, n, T, k - 1), s \in BoatSchedules(h, n, T, k - 1)}

ToArray(n, T, p) == [t \in Idx(T) |-> [i \in Idx(n) |-> p[i + 1][t]]]

\* Every assignment of hosts and boats with g guests that satisfies the
\* structural constraints.
StructuralSolutions(n, T, g) ==
    UNION {{[hosts |-> h, boats |-> v] :
                v \in {w \in {ToArray(n, T, p) : p \in Schedules(h, n, T, n)} :
                            Structural(h, w, n, T)}} :
            h \in {x \in [Idx(n) -> BOOLEAN] : Guests(n, x) = g}}

\* The same set taken from all 2^(T*n*n) arrays. EnumerationIsComplete(n, T)
\* evaluates to TRUE for the shapes (2,1), (2,2), (2,3), (3,1), (3,2) and (4,1).
AllArrays(n, T) == [Idx(T) -> [Idx(n) -> [Idx(n) -> {0, 1}]]]

EnumerationIsComplete(n, T) ==
    \A g \in 0 .. n :
        StructuralSolutions(n, T, g) =
            UNION {{[hosts |-> h, boats |-> v] :
                        v \in {w \in AllArrays(n, T) : Structural(h, w, n, T)}} :
                    h \in {x \in [Idx(n) -> BOOLEAN] : Guests(n, x) = g}}

\* The structural solutions of every shape (n, T) explored, computed once.
CandidateTable ==
    {<<n, T, g, StructuralSolutions(n, T, g)>> :
        n \in 2 .. MaxBoats, T \in 1 .. MaxSlots, g \in 0 .. MaxBoats}

Candidates(n, T, g) ==
    (CHOOSE e \in CandidateTable : e[1] = n /\ e[2] = T /\ e[3] = g)[4]

\* The satisfying assignments with g guests of the model built for one instance.
Solutions(crew, cap, n, T, g) ==
    {a \in Candidates(n, T, g) : WithinCapacity(crew, cap, a.boats, n, T)}

\* Whether the model has a satisfying assignment with g guests.
Feasible(crew, cap, n, T, g) ==
    \E a \in Candidates(n, T, g) : WithinCapacity(crew, cap, a.boats, n, T)

\* model.maximize(cp.sum(~hosts)): the largest number of guests any satisfying
\* assignment has, searched from g downwards; -1 when there is none.
RECURSIVE BestFrom(_, _, _, _, _)
BestFrom(crew, cap, n, T, g) ==
    IF g < 0 THEN -1
    ELSE IF Feasible(crew, cap, n, T, g) THEN g
    ELSE BestFrom(crew, cap, n, T, g - 1)

MaxGuests(crew, cap, n, T) == BestFrom(crew, cap, n, T, n)

\* The solve without the objective: any satisfying assignment.
AnySolution(crew, cap, n, T) ==
    UNION {Solutions(crew, cap, n, T, g) : g \in 0 .. n}

\* The assignments model.solve() can leave in the decision variables.
Optimal(crew, cap, n, T) ==
    LET best == MaxGuests(crew, cap, n, T)
    IN  IF best < 0 THEN {} ELSE Solutions(crew, cap, n, T, best)

None == "None"

\* The fleet is listed from the roomiest boat to the tightest, larger crews
\* first among equals. The model treats all boats alike, so every instance
\* over CrewSizes and Spare is a renaming of one of these.
FleetOrder(crew, cap, n) ==
    \A b \in 1 .. (n - 1) :
        \/ cap[b - 1] > cap[b]
        \/ cap[b - 1] = cap[b] /\ crew[b - 1] >= crew[b]

\* The instance and the model before the solve: the decision variables have no value.
Init ==
    /\ n_boats \in 2 .. MaxBoats
    /\ available_halfhours \in 1 .. MaxSlots
    /\ crew_size \in [Idx(n_boats) -> CrewSizes]
    /\ \E extra \in [Idx(n_boats) -> Spare] :
          capacity = [b \in Idx(n_boats) |-> crew_size[b] + extra[b]]
    /\ FleetOrder(crew_size, capacity, n_boats)
    /\ hosts = None
    /\ boats = None
    /\ status = "model"

\* if model.solve(): an optimal assignment is left in the decision variables.
SolveFound ==
    /\ status = "model"
    /\ \E a \in Optimal(crew_size, capacity, n_boats, available_halfhours) :
          /\ hosts' = a.hosts
          /\ boats' = a.boats
    /\ status' = "solution"
    /\ UNCHANGED <<n_boats, available_halfhours, crew_size, capacity>>

\* else: print("No solution (UNSAT).")
SolveUnsat ==
    /\ status = "model"
    /\ MaxGuests(crew_size, capacity, n_boats, available_halfhours) < 0
    /\ status' = "unsat"
    /\ UNCHANGED <<n_boats, available_halfhours, crew_size, capacity, hosts, boats>>

Next == SolveFound \/ SolveUnsat

Spec == Init /\ [][Next]_vars

(***************************************************************************)
(* The schedule as its consumers read it.                                  *)
(***************************************************************************)
Fleet == Idx(n_boats)
Periods == Idx(available_halfhours)
Solved == status = "solution"
HostSet == {b \in Fleet : hosts[b]}
GuestSet == {b \in Fleet : ~hosts[b]}

\* The crews aboard boat b in half-hour t, besides its own.
Visitors(t, b) == {i \in Fleet : boats[t][i][b] = 1}

RECURSIVE CrewTotal(_)
CrewTotal(S) ==
    IF S = {} THEN 0
    ELSE LET x == CHOOSE y \in S : TRUE IN crew_size[x] + CrewTotal(S \ {x})

Aboard(t, b) == crew_size[b] + CrewTotal(Visitors(t, b))

\* C1: the solve leaves an assignment that satisfies every constraint and that no
\* satisfying assignment beats in guests, and it reports unsat exactly when no
\* assignment satisfies the constraints.
SolveIsOptimal ==
    /\ Solved =>
          /\ Satisfies(crew_size, capacity, hosts, boats, n_boats, available_halfhours)
          /\ \A g \in (Guests(n_boats, hosts) + 1) .. n_boats :
                \A a \in Candidates(n_boats, available_halfhours, g) :
                    ~Satisfies(crew_size, capacity, a.hosts, a.boats,
                               n_boats, available_halfhours)
    /\ status = "unsat" =>
          \A g \in 0 .. n_boats :
              \A a \in Candidates(n_boats, available_halfhours, g) :
                  ~Satisfies(crew_size, capacity, a.hosts, a.boats,
                             n_boats, available_halfhours)

\* C1 witness: an optimum with two hosts, where assignments with more guests were
\* structurally possible and capacity ruled them out.
SolveIsOptimalWitness ==
    /\ Solved
    /\ Cardinality(HostSet) = 2
    /\ Candidates(n_boats, available_halfhours, n_boats - 1) # {}

\* C2: in every slot, a boat's own crew plus the crews visiting it fit its capacity.
OccupancyWithinCapacity ==
    Solved => \A t \in Periods, b \in Fleet : Aboard(t, b) <= capacity[b]

\* C2 witness: a host filled exactly to capacity by two or more visiting crews.
OccupancyWitness ==
    /\ Solved
    /\ \E t \in Periods, b \in Fleet :
          Cardinality(Visitors(t, b)) >= 2 /\ Aboard(t, b) = capacity[b]

\* C3: every guest visits every host in exactly one slot.
EveryGuestVisitsEveryHostOnce ==
    Solved => \A i \in GuestSet, j \in HostSet :
                  Cardinality({t \in Periods : boats[t][i][j] = 1}) = 1

\* C3 witness: a schedule with two hosts and two guests, all four pairs covered.
FullCoverageWitness ==
    Solved /\ Cardinality(HostSet) >= 2 /\ Cardinality(GuestSet) >= 2

\* The (slot, host) combinations in which guests i and k are together.
Together(i, k) ==
    {<<t, x>> \in Periods \X Fleet : boats[t][i][x] = 1 /\ boats[t][k][x] = 1}

\* C4: two guest crews meet at most once across the whole schedule.
GuestsMeetAtMostOnce ==
    Solved => \A i \in GuestSet, k \in GuestSet :
                  i # k => Cardinality(Together(i, k)) <= 1

\* C4 witness: two hosts whose guests could share a boat, and do not (they would
\* share both), next to a pair of guests that does meet once.
MeetOnceWitness ==
    /\ Solved
    /\ Cardinality(HostSet) >= 2
    /\ \E i \in GuestSet, k \in GuestSet :
          /\ i # k
          /\ Together(i, k) = {}
          /\ \A x \in HostSet : crew_size[x] + crew_size[i] + crew_size[k] <= capacity[x]

\* C5: every visit goes from a non-host to a host other than itself.
VisitsGoFromGuestToHost ==
    Solved => \A t \in Periods, i \in Fleet, j \in Fleet :
                  boats[t][i][j] = 1 => (i # j /\ ~hosts[i] /\ hosts[j])

\* C5 witness: a guest with a free half-hour and a fellow guest with room for it.
FreeSlotWitness ==
    /\ Solved
    /\ \E t \in Periods, i \in GuestSet, k \in GuestSet :
          /\ i # k
          /\ \A j \in Fleet : boats[t][i][j] = 0
          /\ crew_size[k] + crew_size[i] <= capacity[k]

\* C6: an accepted schedule has at least one host and at least one guest.
HostCountInRange ==
    Solved => (1 <= Cardinality(HostSet) /\ Cardinality(HostSet) <= n_boats - 1)

\* C6 witness: the upper end of the range, all but one of three or more boats hosting.
HostCountWitness ==
    Solved /\ n_boats >= 3 /\ Cardinality(HostSet) = n_boats - 1

TwoBoats == n_boats = 2
BothCrews == crew_size[0] + crew_size[1]

\* C7 as stated: a 2-boat instance in which one boat cannot hold both crews is
\* reported infeasible.
TwoBoatsOneTooSmall ==
    (TwoBoats /\ \E b \in Fleet : capacity[b] < BothCrews) => ~Solved

\* C7 amended: a 2-boat instance in which neither boat can hold both crews is
\* reported infeasible.
TwoBoatsBothTooSmall ==
    (TwoBoats /\ \A b \in Fleet : capacity[b] < BothCrews) => ~Solved

\* C7 witness: such an instance, solved and reported unsat, although each boat
\* could hold the other crew without its own.
TwoBoatsWitness ==
    /\ TwoBoats
    /\ \A b \in Fleet : capacity[b] < BothCrews
    /\ \E b \in Fleet : crew_size[1 - b] <= capacity[b]
    /\ status = "unsat"

\* The capacities boat b could be given instead, larger than the one it has.
Raised(b) == {crew_size[b] + s : s \in Spare} \ (0 .. capacity[b])

\* C8: raising one boat's capacity leaves an assignment with at least as many
\* guests as the optimum found (the assignment found is tried first).
CapacityIsMonotone ==
    Solved =>
        \A b \in Fleet : \A c \in Raised(b) :
            LET cap2 == [capacity EXCEPT ![b] = c]
                g == Guests(n_boats, hosts)
            IN  \/ /\ [hosts |-> hosts, boats |-> boats]
                          \in Candidates(n_boats, available_halfhours, g)
                   /\ WithinCapacity(crew_size, cap2, boats, n_boats, available_halfhours)
                \/ MaxGuests(crew_size, cap2, n_boats, available_halfhours) >= g

\* C8 witness: an optimum that one larger capacity improves.
MonotoneWitness ==
    /\ Solved
    /\ \E b \in Fleet : \E c \in Raised(b) :
          MaxGuests(crew_size, [capacity EXCEPT ![b] = c], n_boats, available_halfhours)
              > Guests(n_boats, hosts)

\* The scenario: three boats with crews 5, 5, 5 and capacities 20, 5, 5, one slot.
Scenario ==
    /\ n_boats = 3
    /\ available_halfhours = 1
    /\ crew_size = [b \in Idx(3) |-> 5]
    /\ capacity = [b \in Idx(3) |-> IF b = 0 THEN 20 ELSE 5]

\* C9: the scenario is feasible and its only result is boat 0 hosting boats 1 and 2
\* in slot 0.
ScenarioResult ==
    Scenario =>
        /\ status # "unsat"
        /\ MaxGuests(crew_size, capacity, n_boats, available_halfhours) = 2
        /\ Solved =>
              /\ hosts = [b \in Idx(3) |-> b = 0]
              /\ {<<i, j>> \in Fleet \X Fleet : boats[0][i][j] = 1} = {<<1, 0>>, <<2, 0>>}

\* C9 witness: the scenario, solved.
ScenarioWitness == Scenario /\ Solved

\* The visits guest i makes, as (slot, host) pairs.
VisitsOf(i) == {<<t, j>> \in Periods \X Fleet : boats[t][i][j] = 1}

\* C10: there are at most as many hosts as slots, and every guest makes one visit
\* per host, each in a slot of its own.
HostsFitInSlots ==
    Solved =>
        /\ Cardinality(HostSet) <= available_halfhours
        /\ \A i \in GuestSet :
              /\ Cardinality(VisitsOf(i)) = Cardinality(HostSet)
              /\ Cardinality({p[1] : p \in VisitsOf(i)}) = Cardinality(HostSet)

\* C10 witness: as many hosts as slots, more than one.
HostsFillSlotsWitness ==
    Solved /\ Cardinality(HostSet) = available_halfhours /\ available_halfhours >= 2
====
